---- MODULE Spec2Model ----
(***************************************************************************)
(* State-machine model of plugins/trezor/clientbase.py: the callback       *)
(* dispatcher (GuiMixin) and the device session (TrezorClientBase).        *)
(*                                                                         *)
(* A caller's position in a call is pc[c]:                                 *)
(*   "idle"          no call in progress                                   *)
(*   "in_func"       inside wrapped(): func(self, ...) is executing and    *)
(*                   the device may send requests to the callbacks         *)
(*   "in_finally"    func has ended (returned or raised); the finally      *)
(*                   block of wrapped() is about to run                    *)
(*   "after_wrapped" wrapped() has completed; control is back in the code  *)
(*                   that called the wrapped method                        *)
(***************************************************************************)
EXTENDS Integers, Sequences, FiniteSets, TLC

VARIABLES
    pc,                 \* [Callers -> position], see above
    top,                \* [Callers -> the method the caller invoked]
    method,             \* [Callers -> the wrapped method executing]
    funcOutcome,        \* [Callers -> how func(self, ...) ended]
    outcome,            \* [Callers -> what propagates out of the call]
    finishedCalls,      \* [Callers -> handler.finished() calls of this wrapped call]
    wrappedCalls,       \* [Callers -> wrapped calls made by this top-level call]
    reqCount,           \* [Callers -> device requests handled in this wrapped call]
    buttonCount,        \* [Callers -> button requests handled in this wrapped call]
    use_passphrase,     \* [Callers -> the use_passphrase argument of apply_settings]
    serialized,         \* the callers serialize their calls
    msg_code_override,  \* self.msg_code_override
    step,               \* self.step
    stepSet,            \* whether the attribute self.step exists
    features,           \* self.features
    device,             \* self.device
    request,            \* the device message last given to a callback
    requester,          \* the caller whose call that message belongs to
    answer,             \* what the handler prompt returned for it
    shown,              \* the text last passed to the handler
    response,           \* the message the callback returned to the device
    errorText,          \* the text of the RuntimeError raised by callback_Failure
    wordLog,            \* step numbers prompted in the current recovery session
    abortedRecovery,    \* a recovery session on this session ended part-way
    lastResult,         \* the call that has just ended, until the next one starts:
                        \* its method, whether it returned or raised, and the
                        \* calls of wrapped methods and of finished() it made
    closed,             \* close() has been called
    closeResult,        \* how close() ended
    transportCloses,    \* calls of self.transport.close()
    closeLog,           \* the steps close() took, in order
    written,            \* messages cancel() wrote to the transport in this call
    cancelCalls,        \* invocations of the cancel callback in this call
    derivation,         \* input of expand_path: prefix and components
    n,                  \* the path string given to expand_path
    path,               \* the result of expand_path
    version_args,       \* the arguments given to atleast_version
    version_result      \* what atleast_version returned

vars == <<pc, top, method, funcOutcome, outcome, finishedCalls, wrappedCalls,
          reqCount, buttonCount, use_passphrase, serialized, msg_code_override,
          step, stepSet, features, device, request, requester, answer, shown,
          response, errorText, wordLog, abortedRecovery, lastResult, closed,
          closeResult, transportCloses, closeLog, written, cancelCalls,
          derivation, n, path, version_args, version_result>>

callVars == <<pc, top, method, funcOutcome, outcome, finishedCalls,
              wrappedCalls, reqCount, buttonCount, use_passphrase>>
dialogVars == <<request, requester, answer, shown, response, errorText>>
pathVars == <<derivation, n, path>>
versionVars == <<version_args, version_result>>
closeVars == <<closed, closeResult, transportCloses, closeLog>>
cancelVars == <<written, cancelCalls>>
\* what no call on the session changes
staticVars == <<serialized, pathVars, versionVars>>

----------------------------------------------------------------------------
(* Bounds *)

\* device requests answered within one wrapped call
MaxRequests == 2
\* word requests of one recovery session (24 on the device)
MaxWords == 3
\* components after the first segment of a derivation path
MaxComponents == 3
\* invocations of the cancel callback within one wrapped call
MaxCancels == 1
\* the largest number of a firmware version
MaxVersion == 2

----------------------------------------------------------------------------
(* Values *)

\* the threads that call into the session
Callers == {"wallet", "gui"}

\* Python's None
None == "<None>"

\* An integer v of the path is written [top, low] with v = top * 2^31 + low:
\* top is bit 31 and low the 31 bits below it.
Int32(t, l) == [top |-> t, low |-> l]

\* PRIME_DERIVATION_FLAG = 0x80000000
PRIME_DERIVATION_FLAG == Int32(1, 0)

\* plugin.device
DeviceNames == {"TREZOR"}

\* self.types.Failure_* codes a Failure report carries
FailureCodes == {"Failure_UnexpectedMessage", "Failure_ActionCancelled",
                 "Failure_PinCancelled", "Failure_PinInvalid"}
FailureMessages == {"", "Invalid PIN"}

\* msg.code of a ButtonRequest: four codes of the table and two outside it
ButtonCodes == {0, 1, 3, 7, 8, 10}
\* msg.type of a PinMatrixRequest
PinTypes == {1, 2, 3, 4}

\* self.features: the flag and the firmware version <<major, minor, patch>>
Features(p, v) ==
    [passphrase_protection |-> p, major_version |-> v[1],
     minor_version |-> v[2], patch_version |-> v[3]]

\* what the handler's prompts return
Pins == {None, "", "1397"}
Passphrases == {None, "", "correct horse"}
Words == {"", "zoo"}
EmptyDict == "{}"
CharInfos == {None, EmptyDict, "{character: a, delete: False, done: False}"}

\* Python truth value of what a prompt returned
Truthy(v) == v \notin {None, "", EmptyDict}

----------------------------------------------------------------------------
(* GuiMixin *)

\* keys of the messages dict are ints (request codes) or strs (override tags)
IntKey(k) == [t |-> "int", s |-> "", i |-> k]
StrKey(k) == [t |-> "str", s |-> k, i |-> 0]

messages ==
    (IntKey(3) :> "Confirm transaction outputs on %s device to continue") @@
    (IntKey(8) :> "Confirm transaction fee on %s device to continue") @@
    (IntKey(7) :> "Confirm message to sign on %s device to continue") @@
    (IntKey(10) :> "Confirm address on %s device to continue") @@
    (StrKey("change pin") :> "Confirm PIN change on %s device to continue") @@
    (StrKey("default") :> "Check %s device to continue") @@
    (StrKey("homescreen") :> "Confirm home screen change on %s device to continue") @@
    (StrKey("label") :> "Confirm label change on %s device to continue") @@
    (StrKey("remove pin") :> "Confirm removal of PIN on %s device to continue") @@
    (StrKey("passphrase") :> "Confirm on %s device to continue")

\* d.get(k, default)
dict_get(d, k, default) == IF k \in DOMAIN d THEN d[k] ELSE default

\* template % args: the template with its arguments filled in
Text(template, stepArg, dev) == [template |-> template, step |-> stepArg, device |-> dev]
NoText == Text("", 0, "")

\* a message of the protocol, from the device or to it
Req(kind, code, type, fcode, message) ==
    [kind |-> kind, code |-> code, type |-> type, fcode |-> fcode, message |-> message]
NoRequest == Req("none", 0, 0, "", "")
Msg(kind, value) == [kind |-> kind, value |-> value]
NoResponse == Msg("none", "")

\* callback_Failure: the exception raised for a Failure report
Failure_exception_swapped(code, message) ==
    IF code \in {"Failure_PinCancelled", "Failure_ActionCancelled"}
    THEN [exc |-> "RuntimeError", text |-> message]
    ELSE [exc |-> "SilentException", text |-> ""]
Failure_exception(code, message) ==
    IF code \in {"Failure_PinCancelled", "Failure_ActionCancelled"}
    THEN [exc |-> "SilentException", text |-> ""]
    ELSE [exc |-> "RuntimeError", text |-> message]

\* callback_ButtonRequest: msg_code = self.msg_code_override or msg.code
msg_code_request_first(override, code) ==
    IF code # 0 THEN IntKey(code) ELSE StrKey(override)
msg_code(override, code) ==
    IF override # None /\ override # "" THEN StrKey(override) ELSE IntKey(code)

\* callback_ButtonRequest: the text given to show_message
button_message(override, code, dev) ==
    Text(dict_get(messages, msg_code(override, code), messages[StrKey("default")]),
         0, dev)

\* callback_ButtonRequest: the message returned, whether or not the user has
\* invoked the cancel callback
button_response_after_cancel(cancelled) ==
    IF cancelled THEN Msg("Cancel", "") ELSE Msg("ButtonAck", "")
button_response(cancelled) == Msg("ButtonAck", "")

\* callback_PinMatrixRequest: the prompt template for msg.type
pin_prompt(type) ==
    IF type = 1 THEN "Enter your current %s PIN:"
    ELSE IF type = 2 THEN "Enter a new %s PIN:"
    ELSE IF type = 3
    THEN "Please re-enter your new %s PIN.\nNote the numbers have been shuffled!"
    ELSE "Please enter %s PIN"

\* callback_PinMatrixRequest: if not pin: Cancel
pin_response_none_only(pin) ==
    IF pin = None THEN Msg("Cancel", "") ELSE Msg("PinMatrixAck", pin)
pin_response(pin) ==
    IF ~Truthy(pin) THEN Msg("Cancel", "") ELSE Msg("PinMatrixAck", pin)

\* callback_PassphraseRequest: if passphrase is None: Cancel
passphrase_response(passphrase) ==
    IF passphrase = None THEN Msg("Cancel", "") ELSE Msg("PassphraseAck", passphrase)

\* callback_CharacterRequest: if not char_info: Cancel
character_response_none_when_declined(char_info) ==
    IF ~Truthy(char_info) THEN NoResponse ELSE Msg("CharacterAck", char_info)
character_response(char_info) ==
    IF ~Truthy(char_info) THEN Msg("Cancel", "") ELSE Msg("CharacterAck", char_info)

\* callback_WordRequest: self.step += 1
step_increment_twice(s) == s + 2
step_increment(s) == s + 1

\* callback_WordRequest: the prompt, with the step number filled in
word_prompt_before_increment(s, dev) ==
    Text("Step %d/24.  Enter seed word as explained on your %s:", s - 1, dev)
word_prompt(s, dev) ==
    Text("Step %d/24.  Enter seed word as explained on your %s:", s, dev)

----------------------------------------------------------------------------
(* TrezorClientBase.expand_path; a string is a sequence of characters *)

DigitChars == {"0", "1", "2", "3", "4", "5", "6", "7", "8", "9"}

DigitValue(ch) ==
    CASE ch = "0" -> 0 [] ch = "1" -> 1 [] ch = "2" -> 2 [] ch = "3" -> 3
      [] ch = "4" -> 4 [] ch = "5" -> 5 [] ch = "6" -> 6 [] ch = "7" -> 7
      [] ch = "8" -> 8 [] ch = "9" -> 9

IsDigits(x) == x # <<>> /\ \A k \in 1..Len(x) : x[k] \in DigitChars

RECURSIVE DecimalValue(_)
DecimalValue(x) ==
    IF x = <<>> THEN 0
    ELSE 10 * DecimalValue(SubSeq(x, 1, Len(x) - 1)) + DigitValue(x[Len(x)])

\* int(x): the value of a decimal numeral with an optional sign, else ValueError
int(x) ==
    IF x # <<>> /\ x[1] \in {"-", "+"}
    THEN IF IsDigits(Tail(x))
         THEN [ok |-> TRUE,
               value |-> IF x[1] = "-" THEN 0 - DecimalValue(Tail(x))
                         ELSE DecimalValue(Tail(x))]
         ELSE [ok |-> FALSE, value |-> 0]
    ELSE IF IsDigits(x) THEN [ok |-> TRUE, value |-> DecimalValue(x)]
         ELSE [ok |-> FALSE, value |-> 0]

abs(v) == IF v < 0 THEN 0 - v ELSE v

\* a | b on the low 31 bits
RECURSIVE low_or(_, _)
low_or(a, b) ==
    IF a = 0 THEN b
    ELSE IF b = 0 THEN a
    ELSE (IF a % 2 = 1 \/ b % 2 = 1 THEN 1 ELSE 0) + 2 * low_or(a \div 2, b \div 2)

\* a | b
bit_or(a, b) ==
    Int32(IF a.top = 1 \/ b.top = 1 THEN 1 ELSE 0, low_or(a.low, b.low))

endswith(x, ch) == x # <<>> /\ x[Len(x)] = ch
startswith(x, ch) == x # <<>> /\ x[1] = ch

\* x.replace(ch, '')
RECURSIVE replace(_, _)
replace(x, ch) ==
    IF x = <<>> THEN <<>>
    ELSE IF Head(x) = ch THEN replace(Tail(x), ch)
    ELSE <<Head(x)>> \o replace(Tail(x), ch)

\* s.split('/'): always at least one segment
RECURSIVE split(_)
split(s) ==
    IF s = <<>> THEN << <<>> >>
    ELSE LET rest == split(Tail(s)) IN
         IF Head(s) = "/" THEN << <<>> >> \o rest
         ELSE << <<Head(s)>> \o Head(rest) >> \o Tail(rest)

\* the body of the loop of expand_path for one component x
expand_component_sign_ignored(x) ==
    LET primed == endswith(x, "'")
        x1 == IF primed THEN replace(x, "'") ELSE x
        prime == IF primed THEN PRIME_DERIVATION_FLAG ELSE Int32(0, 0)
        v == int(x1)
    IN  IF v.ok THEN [ok |-> TRUE, value |-> bit_or(Int32(0, abs(v.value)), prime)]
        ELSE [ok |-> FALSE, value |-> Int32(0, 0)]
expand_component(x) ==
    LET primed == endswith(x, "'")
        x1 == IF primed THEN replace(x, "'") ELSE x
        prime == IF primed \/ startswith(x1, "-") THEN PRIME_DERIVATION_FLAG ELSE Int32(0, 0)
        v == int(x1)
    IN  IF v.ok THEN [ok |-> TRUE, value |-> bit_or(Int32(0, abs(v.value)), prime)]
        ELSE [ok |-> FALSE, value |-> Int32(0, 0)]

\* the result of a call: a value, or the exception it raised
Returned(v) == [status |-> "ok", value |-> v]
Raised(e) == [status |-> e, value |-> <<>>]
NotCalled == [status |-> "none", value |-> <<>>]

RECURSIVE expand_components(_)
expand_components(xs) ==
    IF xs = <<>> THEN Returned(<<>>)
    ELSE LET e == expand_component(Head(xs)) IN
         IF ~e.ok THEN Raised("ValueError")
         ELSE LET rest == expand_components(Tail(xs)) IN
              IF rest.status # "ok" THEN rest
              ELSE Returned(<<e.value>> \o rest.value)

\* expand_path(n): for x in n.split('/')[1:]
expand_path(s) == expand_components(Tail(split(s)))

\* a path string from its first segment and its components
RECURSIVE join(_)
join(xs) == IF xs = <<>> THEN <<>> ELSE <<"/">> \o Head(xs) \o join(Tail(xs))

\* a component as written: sign, digits, prime mark
Component(neg, digits, primed) == [neg |-> neg, digits |-> digits, primed |-> primed]
component_string(comp) ==
    (IF comp.neg THEN <<"-">> ELSE <<>>) \o comp.digits
        \o (IF comp.primed THEN <<"'">> ELSE <<>>)
path_string(d) ==
    d.prefix \o join([k \in 1..Len(d.comps) |-> component_string(d.comps[k])])

Prefixes == {<<"m">>, <<>>}
DigitStrings == {<<>>, <<"0">>, <<"1">>, <<"2">>, <<"1", "2">>}
Components ==
    {Component(neg, digits, primed) :
        neg \in BOOLEAN, digits \in DigitStrings, primed \in BOOLEAN}
\* the paths of at most m components
Derivations(m) ==
    {[prefix |-> p, comps |-> cs] :
        p \in Prefixes, cs \in UNION {[1..k -> Components] : k \in 0..m}}
NoDerivation == [prefix |-> <<>>, comps |-> <<>>]

----------------------------------------------------------------------------
(* TrezorClientBase: firmware_version and atleast_version *)

\* firmware_version: (f.major_version, f.minor_version, f.patch_version)
firmware_version(f) == <<f.major_version, f.minor_version, f.patch_version>>

\* Python 2 cmp of two ints
cmp_int(a, b) == IF a < b THEN 0 - 1 ELSE IF a > b THEN 1 ELSE 0

\* Python 2 cmp of two tuples of equal length: the first unequal pair decides
RECURSIVE cmp_swapped(_, _)
cmp_swapped(a, b) ==
    IF a = <<>> THEN 0
    ELSE IF Head(a) # Head(b) THEN cmp_int(Head(b), Head(a))
    ELSE cmp_swapped(Tail(a), Tail(b))
RECURSIVE cmp(_, _)
cmp(a, b) ==
    IF a = <<>> THEN 0
    ELSE IF Head(a) # Head(b) THEN cmp_int(Head(a), Head(b))
    ELSE cmp(Tail(a), Tail(b))

\* atleast_version(self, major, minor=0, patch=0), args the positional arguments
atleast_version(f, args) ==
    LET major == args[1]
        minor == IF Len(args) >= 2 THEN args[2] ELSE 0
        patch == IF Len(args) >= 3 THEN args[3] ELSE 0
    IN cmp(firmware_version(f), <<major, minor, patch>>)

\* firmware versions and argument lists of numbers up to m
Versions(m) == [1..3 -> 0..m]
ArgLists(m) == UNION {[1..k -> 0..m] : k \in 1..3}
NoArgs == <<>>
NoVersionResult == [called |-> FALSE, value |-> 0]

----------------------------------------------------------------------------
(* TrezorClientBase: the calls *)

\* wrap_methods: the methods replaced by their wrapped form
WrappedMethods ==
    {"apply_settings", "change_pin", "decrypt_message", "get_address",
     "get_public_node", "load_device_by_mnemonic", "load_device_by_xprv",
     "recovery_device", "reset_device", "sign_message", "sign_tx", "wipe_device"}

\* the methods that set msg_code_override around a wrapped call
OverrideMethods == {"toggle_passphrase", "change_label", "change_homescreen", "set_pin"}

\* derivations handed to first_address and address_from_derivation
SampleDerivations ==
    {[prefix |-> <<"m">>, comps |-> <<Component(FALSE, <<"0">>, FALSE),
                                      Component(FALSE, <<"1">>, TRUE)>>],
     [prefix |-> <<"m">>, comps |-> <<Component(FALSE, <<>>, FALSE)>>]}

\* callers serialize access: a call starts only when no call is in flight;
\* callers that do not serialize start a call whenever they are idle
CanStart(c) ==
    /\ ~closed
    /\ pc[c] = "idle"
    /\ serialized => \A d \in Callers : pc[d] = "idle"

\* no call has ended since the last one started
NoResult ==
    [override |-> FALSE, result |-> "none", top |-> "none", pathError |-> FALSE,
     wrapped |-> 0, finished |-> 0]

\* the methods that call a wrapped method and are not wrapped themselves
CompositeMethods ==
    {"toggle_passphrase", "change_label", "change_homescreen", "set_pin",
     "first_address", "address_from_derivation"}

\* the caller enters wrapped(self, ...) of method m, called from method t
enter_wrapped(c, t, m) ==
    /\ pc' = [pc EXCEPT ![c] = "in_func"]
    /\ top' = [top EXCEPT ![c] = t]
    /\ method' = [method EXCEPT ![c] = m]
    /\ funcOutcome' = [funcOutcome EXCEPT ![c] = "none"]
    /\ outcome' = [outcome EXCEPT ![c] = "none"]
    /\ finishedCalls' = [finishedCalls EXCEPT ![c] = 0]
    /\ wrappedCalls' = [wrappedCalls EXCEPT ![c] = 1]
    /\ reqCount' = [reqCount EXCEPT ![c] = 0]
    /\ buttonCount' = [buttonCount EXCEPT ![c] = 0]
    /\ lastResult' = NoResult

\* control returns to the caller of the top-level method
return_to_caller(c) ==
    /\ pc' = [pc EXCEPT ![c] = "idle"]
    /\ top' = [top EXCEPT ![c] = "none"]
    /\ method' = [method EXCEPT ![c] = "none"]
    /\ funcOutcome' = [funcOutcome EXCEPT ![c] = "none"]
    /\ outcome' = [outcome EXCEPT ![c] = "none"]
    /\ finishedCalls' = [finishedCalls EXCEPT ![c] = 0]
    /\ wrappedCalls' = [wrappedCalls EXCEPT ![c] = 0]
    /\ reqCount' = [reqCount EXCEPT ![c] = 0]
    /\ buttonCount' = [buttonCount EXCEPT ![c] = 0]
    /\ use_passphrase' = [use_passphrase EXCEPT ![c] = None]
    /\ lastResult' = [override |-> top[c] \in OverrideMethods,
                      result |-> IF outcome[c] = "ok" THEN "returned" ELSE "raised",
                      top |-> top[c],
                      pathError |-> FALSE,
                      wrapped |-> wrappedCalls[c],
                      finished |-> finishedCalls[c]]

\* a direct call of a wrapped method other than recovery_device
call_wrapped(c) ==
    /\ CanStart(c)
    /\ \E m \in WrappedMethods \ {"recovery_device"} : enter_wrapped(c, m, m)
    /\ UNCHANGED <<use_passphrase, msg_code_override, step, stepSet, features, device, dialogVars,
                   wordLog, abortedRecovery, closeVars, cancelVars, staticVars>>

\* a recovery session: the step counter is reset, then recovery_device runs
recover(c) ==
    /\ CanStart(c)
    /\ step' = 0
    /\ stepSet' = TRUE
    /\ wordLog' = <<>>
    /\ enter_wrapped(c, "recovery_device", "recovery_device")
    /\ UNCHANGED <<use_passphrase, msg_code_override, features, device, dialogVars,
                   abortedRecovery, closeVars, cancelVars, staticVars>>

\* address_from_derivation: expand_path(derivation), then get_address
address_call(c, t) ==
    /\ CanStart(c)
    /\ \E d \in SampleDerivations :
          IF expand_path(path_string(d)).status = "ok"
          THEN /\ enter_wrapped(c, t, "get_address")
               /\ UNCHANGED use_passphrase
          ELSE \* expand_path raised ValueError: get_address is not called
               /\ lastResult' = [override |-> FALSE, result |-> "raised",
                                 top |-> t, pathError |-> TRUE,
                                 wrapped |-> 0, finished |-> 0]
               /\ UNCHANGED callVars
    /\ UNCHANGED <<msg_code_override, step, stepSet, features, device, dialogVars,
                   wordLog, abortedRecovery, closeVars, cancelVars, staticVars>>

first_address(c) == address_call(c, "first_address")

address_from_derivation(c) == address_call(c, "address_from_derivation")

\* set_pin: the override for removing or changing the PIN
set_pin_override_swapped(remove) == IF remove THEN "change pin" ELSE "remove pin"
set_pin_override(remove) == IF remove THEN "remove pin" ELSE "change pin"

\* self.msg_code_override = tag; try: the wrapped method m
override_call_tag_not_set(c, t, tag, m) ==
    /\ CanStart(c)
    /\ enter_wrapped(c, t, m)
    /\ UNCHANGED <<msg_code_override, step, stepSet, features, device, dialogVars,
                   wordLog, abortedRecovery, closeVars, cancelVars, staticVars>>
override_call(c, t, tag, m) ==
    /\ CanStart(c)
    /\ msg_code_override' = tag
    /\ enter_wrapped(c, t, m)
    /\ UNCHANGED <<step, stepSet, features, device, dialogVars, wordLog, abortedRecovery,
                   closeVars, cancelVars, staticVars>>

\* finally: self.msg_code_override = None; the outcome propagates to the caller
override_finally_on_success_only(c, t) ==
    /\ pc[c] = "after_wrapped"
    /\ top[c] = t
    /\ msg_code_override' = IF outcome[c] = "ok" THEN None ELSE msg_code_override
    /\ return_to_caller(c)
    /\ UNCHANGED <<step, stepSet, features, device, dialogVars, wordLog,
                   abortedRecovery, closeVars, cancelVars, staticVars>>
override_finally(c, t) ==
    /\ pc[c] = "after_wrapped"
    /\ top[c] = t
    /\ msg_code_override' = None
    /\ return_to_caller(c)
    /\ UNCHANGED <<step, stepSet, features, device, dialogVars, wordLog,
                   abortedRecovery, closeVars, cancelVars, staticVars>>

\* toggle_passphrase: enabled = not self.features.passphrase_protection
toggle_enabled_not_negated(f) == f.passphrase_protection
toggle_enabled(f) == ~f.passphrase_protection

PyBool(b) == IF b THEN "True" ELSE "False"

toggle_passphrase(c) ==
    \/ /\ override_call(c, "toggle_passphrase", "passphrase", "apply_settings")
       /\ use_passphrase' =
             [use_passphrase EXCEPT ![c] = PyBool(toggle_enabled(features))]
    \/ override_finally(c, "toggle_passphrase")

change_label(c) ==
    \/ /\ override_call(c, "change_label", "label", "apply_settings")
       /\ UNCHANGED use_passphrase
    \/ override_finally(c, "change_label")

change_homescreen(c) ==
    \/ /\ override_call(c, "change_homescreen", "homescreen", "apply_settings")
       /\ UNCHANGED use_passphrase
    \/ override_finally(c, "change_homescreen")

set_pin(c) ==
    \/ /\ \E remove \in BOOLEAN :
             override_call(c, "set_pin", set_pin_override(remove), "change_pin")
       /\ UNCHANGED use_passphrase
    \/ override_finally(c, "set_pin")

\* a call that sets no override returns what the wrapped method returned or raised
plain_return(c) ==
    /\ pc[c] = "after_wrapped"
    /\ top[c] \notin OverrideMethods
    /\ return_to_caller(c)
    /\ UNCHANGED <<msg_code_override, step, stepSet, features, device, dialogVars,
                   wordLog, abortedRecovery, closeVars, cancelVars, staticVars>>

----------------------------------------------------------------------------
(* The exchange with the device while func(self, ...) executes *)

InFunc(c) == pc[c] = "in_func"

\* no callback is being observed
dialog_over ==
    /\ request' = NoRequest
    /\ requester' = "none"
    /\ answer' = None
    /\ shown' = NoText
    /\ response' = NoResponse
    /\ errorText' = ""

\* the callback returned: its answer goes to the device and func goes on
answered(c) ==
    /\ reqCount' = [reqCount EXCEPT ![c] = @ + 1]
    /\ requester' = c
    /\ UNCHANGED <<pc, top, method, funcOutcome, outcome, finishedCalls, wrappedCalls,
                   use_passphrase>>

\* func(self, ...) ends with outcome o: control passes to the finally of wrapped
func_ends(c, o) ==
    /\ pc' = [pc EXCEPT ![c] = "in_finally"]
    /\ funcOutcome' = [funcOutcome EXCEPT ![c] = o]
    /\ abortedRecovery' =
          (abortedRecovery
              \/ (method[c] = "recovery_device" /\ o # "ok" /\ wordLog # <<>>))
    /\ UNCHANGED <<top, method, outcome, finishedCalls, wrappedCalls, reqCount,
                   buttonCount, use_passphrase>>

\* a dispatcher that answered a Failure report and let func go on
callback_Failure_answered(c) ==
    /\ InFunc(c)
    /\ reqCount[c] < MaxRequests
    /\ \E code \in FailureCodes, message \in FailureMessages :
          request' = Req("Failure", 0, 0, code, message)
    /\ errorText' = ""
    /\ answer' = None
    /\ shown' = NoText
    /\ response' = Msg("Cancel", "")
    /\ answered(c)
    /\ UNCHANGED <<buttonCount, msg_code_override, step, stepSet, features, device,
                   wordLog, abortedRecovery, lastResult, closeVars, cancelVars,
                   staticVars>>
callback_Failure(c) ==
    /\ InFunc(c)
    /\ \E code \in FailureCodes, message \in FailureMessages :
          LET e == Failure_exception(code, message) IN
          /\ request' = Req("Failure", 0, 0, code, message)
          /\ errorText' = e.text
          /\ func_ends(c, e.exc)
    /\ requester' = c
    /\ answer' = None
    /\ shown' = NoText
    /\ response' = NoResponse
    /\ UNCHANGED <<msg_code_override, step, stepSet, features, device, wordLog,
                   lastResult, closeVars, cancelVars, staticVars>>

\* a dispatcher that used the override for one button request only
callback_ButtonRequest_override_consumed(c) ==
    /\ InFunc(c)
    /\ reqCount[c] < MaxRequests
    /\ \E code \in ButtonCodes :
          /\ request' = Req("ButtonRequest", code, 0, "", "")
          /\ shown' = button_message(msg_code_override, code, device)
    /\ answer' = None
    /\ response' = button_response(cancelCalls > 0)
    /\ buttonCount' = [buttonCount EXCEPT ![c] = @ + 1]
    /\ answered(c)
    /\ msg_code_override' = None
    /\ UNCHANGED <<step, stepSet, features, device, errorText,
                   wordLog, abortedRecovery, lastResult, closeVars, cancelVars, staticVars>>
callback_ButtonRequest(c) ==
    /\ InFunc(c)
    /\ reqCount[c] < MaxRequests
    /\ \E code \in ButtonCodes :
          /\ request' = Req("ButtonRequest", code, 0, "", "")
          /\ shown' = button_message(msg_code_override, code, device)
    /\ answer' = None
    /\ response' = button_response(cancelCalls > 0)
    /\ buttonCount' = [buttonCount EXCEPT ![c] = @ + 1]
    /\ answered(c)
    /\ UNCHANGED <<msg_code_override, step, stepSet, features, device, errorText,
                   wordLog, abortedRecovery, lastResult, closeVars, cancelVars, staticVars>>

callback_PinMatrixRequest(c) ==
    /\ InFunc(c)
    /\ reqCount[c] < MaxRequests
    /\ \E type \in PinTypes, pin \in Pins :
          /\ request' = Req("PinMatrixRequest", 0, type, "", "")
          /\ shown' = Text(pin_prompt(type), 0, device)
          /\ answer' = pin
          /\ response' = pin_response(pin)
    /\ answered(c)
    /\ UNCHANGED <<buttonCount, msg_code_override, step, stepSet, features, device, errorText,
                   wordLog, abortedRecovery, lastResult, closeVars, cancelVars, staticVars>>

callback_PassphraseRequest(c) ==
    /\ InFunc(c)
    /\ reqCount[c] < MaxRequests
    /\ \E passphrase \in Passphrases :
          /\ answer' = passphrase
          /\ response' = passphrase_response(passphrase)
    /\ request' = Req("PassphraseRequest", 0, 0, "", "")
    /\ shown' = Text("Please enter your %s passphrase", 0, device)
    /\ answered(c)
    /\ UNCHANGED <<buttonCount, msg_code_override, step, stepSet, features, device, errorText,
                   wordLog, abortedRecovery, lastResult, closeVars, cancelVars, staticVars>>

\* the device asks for words only while recovery_device runs
callback_WordRequest(c) ==
    /\ InFunc(c)
    /\ method[c] = "recovery_device"
    /\ Len(wordLog) < MaxWords
    /\ request' = Req("WordRequest", 0, 0, "", "")
    /\ requester' = c
    /\ IF ~stepSet
       THEN \* self.step += 1 on a session without the attribute
            /\ func_ends(c, "AttributeError")
            /\ answer' = None
            /\ shown' = NoText
            /\ response' = NoResponse
            /\ UNCHANGED <<step, wordLog>>
       ELSE /\ step' = step_increment(step)
            /\ shown' = word_prompt(step', device)
            /\ wordLog' = Append(wordLog, step')
            /\ \E word \in Words :
                  /\ answer' = word
                  /\ response' = Msg("WordAck", word)
            /\ UNCHANGED <<callVars, abortedRecovery>>
    /\ UNCHANGED <<msg_code_override, stepSet, features, device, errorText,
                   lastResult, closeVars, cancelVars, staticVars>>

callback_CharacterRequest(c) ==
    /\ InFunc(c)
    /\ reqCount[c] < MaxRequests
    /\ \E char_info \in CharInfos :
          /\ answer' = char_info
          /\ response' = character_response(char_info)
    /\ request' = Req("CharacterRequest", 0, 0, "", "")
    /\ shown' = NoText
    /\ answered(c)
    /\ UNCHANGED <<buttonCount, msg_code_override, step, stepSet, features, device, errorText,
                   wordLog, abortedRecovery, lastResult, closeVars, cancelVars, staticVars>>

\* the device's terminal response arrives: func(self, ...) returns normally
func_returns(c) ==
    /\ InFunc(c)
    /\ dialog_over
    /\ func_ends(c, "ok")
    /\ IF method[c] = "apply_settings"
       THEN \E p \in BOOLEAN : features' = [features EXCEPT !.passphrase_protection = p]
       ELSE UNCHANGED features
    /\ UNCHANGED <<msg_code_override, step, stepSet, device, wordLog,
                   lastResult, closeVars, cancelVars, staticVars>>

\* the transport fails (the device was removed): the blocked call raises
transport_fails(c) ==
    /\ InFunc(c)
    /\ dialog_over
    /\ func_ends(c, "TransportError")
    /\ UNCHANGED <<msg_code_override, step, stepSet, features, device,
                   wordLog, lastResult, closeVars, cancelVars, staticVars>>

\* wrapped(): finally: self.handler.finished(); finished may itself raise
wrapped_finished_on_return_only(c) ==
    /\ pc[c] = "in_finally"
    /\ pc' = [pc EXCEPT ![c] = "after_wrapped"]
    /\ dialog_over
    /\ finishedCalls' = [finishedCalls EXCEPT
                            ![c] = IF funcOutcome[c] = "ok" THEN @ + 1 ELSE @]
    /\ outcome' = [outcome EXCEPT ![c] = funcOutcome[c]]
    /\ written' = <<>>
    /\ cancelCalls' = 0
    /\ UNCHANGED <<top, method, funcOutcome, wrappedCalls, reqCount, buttonCount,
                   use_passphrase, msg_code_override, step, stepSet, features, device,
                   wordLog, abortedRecovery, lastResult, closeVars, staticVars>>
wrapped(c) ==
    /\ pc[c] = "in_finally"
    /\ pc' = [pc EXCEPT ![c] = "after_wrapped"]
    /\ dialog_over
    /\ finishedCalls' = [finishedCalls EXCEPT ![c] = @ + 1]
    /\ \E raises \in BOOLEAN :
          outcome' = [outcome EXCEPT
                        ![c] = IF raises THEN "HandlerError" ELSE funcOutcome[c]]
    /\ written' = <<>>
    /\ cancelCalls' = 0
    /\ UNCHANGED <<top, method, funcOutcome, wrappedCalls, reqCount, buttonCount,
                   use_passphrase, msg_code_override, step, stepSet, features, device,
                   wordLog, abortedRecovery, lastResult, closeVars, staticVars>>

\* cancel: the callback given to show_message writes Cancel to the transport,
\* at any time between show_message and handler.finished()
cancel ==
    /\ \E c \in Callers : pc[c] \in {"in_func", "in_finally"} /\ buttonCount[c] > 0
    /\ cancelCalls < MaxCancels
    /\ cancelCalls' = cancelCalls + 1
    /\ written' = Append(written, Msg("Cancel", ""))
    /\ UNCHANGED <<callVars, msg_code_override, step, stepSet, features, device,
                   dialogVars, wordLog, abortedRecovery, lastResult, closeVars,
                   staticVars>>

----------------------------------------------------------------------------
(* Teardown *)

\* clear_session: what leaves it when super().clear_session() raises or not
clear_session_leaks(superRaises) == IF superRaises THEN "raised" ELSE "ok"
clear_session(superRaises) == "ok"

\* close: clear_session(), then self.transport.close(), which may raise
close ==
    /\ ~closed
    /\ \A c \in Callers : pc[c] = "idle"
    /\ closed' = TRUE
    /\ \E superRaises \in BOOLEAN, closeRaises \in BOOLEAN :
          LET cleared == IF superRaises THEN "super.clear_session raised"
                                        ELSE "super.clear_session"
          IN
          IF clear_session(superRaises) = "raised"
          THEN /\ closeResult' = "raised"
               /\ closeLog' = <<cleared>>
               /\ UNCHANGED transportCloses
          ELSE /\ transportCloses' = transportCloses + 1
               /\ closeLog' = <<cleared, "transport.close">>
               /\ closeResult' = IF closeRaises THEN "raised" ELSE "ok"
    /\ UNCHANGED <<callVars, msg_code_override, step, stepSet, features, device,
                   dialogVars, wordLog, abortedRecovery, lastResult, cancelVars,
                   staticVars>>

----------------------------------------------------------------------------
(* The session *)

\* __init__: msg_code_override is None; self.step is not assigned
Init ==
    /\ pc = [c \in Callers |-> "idle"]
    /\ top = [c \in Callers |-> "none"]
    /\ method = [c \in Callers |-> "none"]
    /\ funcOutcome = [c \in Callers |-> "none"]
    /\ outcome = [c \in Callers |-> "none"]
    /\ finishedCalls = [c \in Callers |-> 0]
    /\ wrappedCalls = [c \in Callers |-> 0]
    /\ reqCount = [c \in Callers |-> 0]
    /\ buttonCount = [c \in Callers |-> 0]
    /\ use_passphrase = [c \in Callers |-> None]
    /\ serialized = TRUE
    /\ msg_code_override = None
    /\ step = 0
    /\ stepSet = FALSE
    /\ features \in {Features(p, <<1, 0, 0>>) : p \in BOOLEAN}
    /\ device \in DeviceNames
    /\ request = NoRequest
    /\ requester = "none"
    /\ answer = None
    /\ shown = NoText
    /\ response = NoResponse
    /\ errorText = ""
    /\ wordLog = <<>>
    /\ abortedRecovery = FALSE
    /\ lastResult = NoResult
    /\ closed = FALSE
    /\ closeResult = "none"
    /\ transportCloses = 0
    /\ closeLog = <<>>
    /\ written = <<>>
    /\ cancelCalls = 0
    /\ derivation = NoDerivation
    /\ n = <<>>
    /\ path = NotCalled
    /\ version_args = NoArgs
    /\ version_result = NoVersionResult

Next ==
    \/ \E c \in Callers : call_wrapped(c)
    \/ \E c \in Callers : recover(c)
    \/ \E c \in Callers : first_address(c)
    \/ \E c \in Callers : address_from_derivation(c)
    \/ \E c \in Callers : toggle_passphrase(c)
    \/ \E c \in Callers : change_label(c)
    \/ \E c \in Callers : change_homescreen(c)
    \/ \E c \in Callers : set_pin(c)
    \/ \E c \in Callers : plain_return(c)
    \/ \E c \in Callers : callback_Failure(c)
    \/ \E c \in Callers : callback_ButtonRequest(c)
    \/ \E c \in Callers : callback_PinMatrixRequest(c)
    \/ \E c \in Callers : callback_PassphraseRequest(c)
    \/ \E c \in Callers : callback_WordRequest(c)
    \/ \E c \in Callers : callback_CharacterRequest(c)
    \/ \E c \in Callers : func_returns(c)
    \/ \E c \in Callers : transport_fails(c)
    \/ \E c \in Callers : wrapped(c)
    \/ cancel
    \/ close

Spec == Init /\ [][Next]_vars

----------------------------------------------------------------------------
(* Override-setting methods called without serialization *)

\* the session of Init, with callers that do not wait for each other
InitConcurrent ==
    /\ pc = [c \in Callers |-> "idle"]
    /\ top = [c \in Callers |-> "none"]
    /\ method = [c \in Callers |-> "none"]
    /\ funcOutcome = [c \in Callers |-> "none"]
    /\ outcome = [c \in Callers |-> "none"]
    /\ finishedCalls = [c \in Callers |-> 0]
    /\ wrappedCalls = [c \in Callers |-> 0]
    /\ reqCount = [c \in Callers |-> 0]
    /\ buttonCount = [c \in Callers |-> 0]
    /\ use_passphrase = [c \in Callers |-> None]
    /\ serialized = FALSE
    /\ msg_code_override = None
    /\ step = 0
    /\ stepSet = FALSE
    /\ features \in {Features(p, <<1, 0, 0>>) : p \in BOOLEAN}
    /\ device \in DeviceNames
    /\ request = NoRequest
    /\ requester = "none"
    /\ answer = None
    /\ shown = NoText
    /\ response = NoResponse
    /\ errorText = ""
    /\ wordLog = <<>>
    /\ abortedRecovery = FALSE
    /\ lastResult = NoResult
    /\ closed = FALSE
    /\ closeResult = "none"
    /\ transportCloses = 0
    /\ closeLog = <<>>
    /\ written = <<>>
    /\ cancelCalls = 0
    /\ derivation = NoDerivation
    /\ n = <<>>
    /\ path = NotCalled
    /\ version_args = NoArgs
    /\ version_result = NoVersionResult

\* two callers interleave override-setting methods and their button requests
NextConcurrent ==
    \/ \E c \in Callers : toggle_passphrase(c)
    \/ \E c \in Callers : change_label(c)
    \/ \E c \in Callers : change_homescreen(c)
    \/ \E c \in Callers : set_pin(c)
    \/ \E c \in Callers : callback_ButtonRequest(c)
    \/ \E c \in Callers : func_returns(c)
    \/ \E c \in Callers : wrapped(c)

SpecConcurrent == InitConcurrent /\ [][NextConcurrent]_vars

----------------------------------------------------------------------------
(* expand_path applied to bounded inputs *)

InitPath ==
    /\ pc = [c \in Callers |-> "idle"]
    /\ top = [c \in Callers |-> "none"]
    /\ method = [c \in Callers |-> "none"]
    /\ funcOutcome = [c \in Callers |-> "none"]
    /\ outcome = [c \in Callers |-> "none"]
    /\ finishedCalls = [c \in Callers |-> 0]
    /\ wrappedCalls = [c \in Callers |-> 0]
    /\ reqCount = [c \in Callers |-> 0]
    /\ buttonCount = [c \in Callers |-> 0]
    /\ use_passphrase = [c \in Callers |-> None]
    /\ serialized = TRUE
    /\ msg_code_override = None
    /\ step = 0
    /\ stepSet = FALSE
    /\ features = Features(FALSE, <<1, 0, 0>>)
    /\ device = "TREZOR"
    /\ request = NoRequest
    /\ requester = "none"
    /\ answer = None
    /\ shown = NoText
    /\ response = NoResponse
    /\ errorText = ""
    /\ wordLog = <<>>
    /\ abortedRecovery = FALSE
    /\ lastResult = NoResult
    /\ closed = FALSE
    /\ closeResult = "none"
    /\ transportCloses = 0
    /\ closeLog = <<>>
    /\ written = <<>>
    /\ cancelCalls = 0
    /\ derivation \in Derivations(MaxComponents)
    /\ n = path_string(derivation)
    /\ path = NotCalled
    /\ version_args = NoArgs
    /\ version_result = NoVersionResult

call_expand_path ==
    /\ path = NotCalled
    /\ path' = expand_path(n)
    /\ UNCHANGED <<callVars, msg_code_override, step, stepSet, features, device,
                   dialogVars, wordLog, abortedRecovery, lastResult, closeVars,
                   cancelVars, serialized, versionVars, derivation, n>>

NextPath == call_expand_path

SpecPath == InitPath /\ [][NextPath]_vars

----------------------------------------------------------------------------
(* atleast_version applied to bounded inputs *)

InitVersion ==
    /\ pc = [c \in Callers |-> "idle"]
    /\ top = [c \in Callers |-> "none"]
    /\ method = [c \in Callers |-> "none"]
    /\ funcOutcome = [c \in Callers |-> "none"]
    /\ outcome = [c \in Callers |-> "none"]
    /\ finishedCalls = [c \in Callers |-> 0]
    /\ wrappedCalls = [c \in Callers |-> 0]
    /\ reqCount = [c \in Callers |-> 0]
    /\ buttonCount = [c \in Callers |-> 0]
    /\ use_passphrase = [c \in Callers |-> None]
    /\ serialized = TRUE
    /\ msg_code_override = None
    /\ step = 0
    /\ stepSet = FALSE
    /\ features \in {Features(FALSE, v) : v \in Versions(MaxVersion)}
    /\ device = "TREZOR"
    /\ request = NoRequest
    /\ requester = "none"
    /\ answer = None
    /\ shown = NoText
    /\ response = NoResponse
    /\ errorText = ""
    /\ wordLog = <<>>
    /\ abortedRecovery = FALSE
    /\ lastResult = NoResult
    /\ closed = FALSE
    /\ closeResult = "none"
    /\ transportCloses = 0
    /\ closeLog = <<>>
    /\ written = <<>>
    /\ cancelCalls = 0
    /\ derivation = NoDerivation
    /\ n = <<>>
    /\ path = NotCalled
    /\ version_args \in ArgLists(MaxVersion)
    /\ version_result = NoVersionResult

call_atleast_version ==
    /\ ~version_result.called
    /\ version_result' = [called |-> TRUE, value |-> atleast_version(features, version_args)]
    /\ UNCHANGED <<callVars, msg_code_override, step, stepSet, features, device,
                   dialogVars, wordLog, abortedRecovery, lastResult, closeVars,
                   cancelVars, serialized, pathVars, version_args>>

NextVersion == call_atleast_version

SpecVersion == InitVersion /\ [][NextVersion]_vars

----------------------------------------------------------------------------
(* Properties of the wrapping and of the override *)

Exceptions == {"SilentException", "RuntimeError", "TransportError", "AttributeError"}

\* C1: for every call of a wrapped method, handler.finished() is invoked
\* exactly once, and only after the underlying method has ended, whether it
\* returned, raised SilentException, raised RuntimeError or failed in the
\* transport: no finished() while func runs, exactly one when wrapped() is left.
C1_FinishedOncePerWrappedCall ==
    \A c \in Callers :
        /\ pc[c] \in {"in_func", "in_finally"} => finishedCalls[c] = 0
        /\ finishedCalls[c] > 0 => funcOutcome[c] \in {"ok"} \cup Exceptions
        /\ pc[c] = "after_wrapped" =>
              /\ finishedCalls[c] = 1
              /\ wrappedCalls[c] = 1
              /\ method[c] \in WrappedMethods

C1_Witness ==
    \E c \in Callers :
        /\ pc[c] = "after_wrapped"
        /\ method[c] = "sign_tx"
        /\ funcOutcome[c] = "TransportError"
        /\ finishedCalls[c] = 1

\* C2 as stated: immediately after any wrapped method completes,
\* msg_code_override is None, whoever called the wrapped method.
C2_NoneAfterEveryWrappedCall ==
    \A c \in Callers : pc[c] = "after_wrapped" => msg_code_override = None

\* the tags a method sets
TagsOf(t) ==
    CASE t = "toggle_passphrase" -> {"passphrase"}
      [] t = "change_label" -> {"label"}
      [] t = "change_homescreen" -> {"homescreen"}
      [] t = "set_pin" -> {"remove pin", "change pin"}
      [] OTHER -> {None}

\* C2 amended: immediately after a wrapped method completes, msg_code_override
\* is None when the wrapped method was called directly or through first_address
\* or address_from_derivation; when it was called by toggle_passphrase,
\* change_label, change_homescreen or set_pin, msg_code_override still holds
\* that method's tag, until the method's own finally block has run.
C2_OverrideAfterWrappedCall ==
    \A c \in Callers :
        pc[c] = "after_wrapped" => msg_code_override \in TagsOf(top[c])

C2_Witness ==
    \E c \in Callers :
        /\ pc[c] = "after_wrapped"
        /\ top[c] = "set_pin"
        /\ method[c] = "change_pin"
        /\ outcome[c] = "RuntimeError"
        /\ msg_code_override = "remove pin"

\* C3: with one call in flight at a time, msg_code_override is None whenever
\* control is with the callers (after a normal return and after a raise, also
\* one raised by finished()), and it is not None only while toggle_passphrase,
\* change_label, change_homescreen or set_pin is executing.
C3_OverrideOnlyInsideOverrideMethods ==
    /\ (\A c \in Callers : pc[c] = "idle") => msg_code_override = None
    /\ msg_code_override # None =>
          \E c \in Callers : pc[c] # "idle" /\ top[c] \in OverrideMethods

C3_Witness ==
    /\ \A c \in Callers : pc[c] = "idle"
    /\ lastResult.override
    /\ lastResult.result = "raised"
    /\ msg_code_override = None

----------------------------------------------------------------------------
(* Properties of the callback dispatcher *)

\* the template the claim expects for a button request
ExpectedButtonTemplate(override, code) ==
    CASE override = "passphrase" -> "Confirm on %s device to continue"
      [] override = "label" -> "Confirm label change on %s device to continue"
      [] override = "homescreen" ->
            "Confirm home screen change on %s device to continue"
      [] override = "remove pin" -> "Confirm removal of PIN on %s device to continue"
      [] override = "change pin" -> "Confirm PIN change on %s device to continue"
      [] override = None /\ code = 3 ->
            "Confirm transaction outputs on %s device to continue"
      [] override = None /\ code = 8 ->
            "Confirm transaction fee on %s device to continue"
      [] override = None /\ code = 7 ->
            "Confirm message to sign on %s device to continue"
      [] override = None /\ code = 10 -> "Confirm address on %s device to continue"
      [] OTHER -> "Check %s device to continue"

\* C4: for every button request the text passed to show_message is the
\* template keyed by msg_code_override when it is set, whatever the request's
\* code; otherwise the template keyed by the request's code, and the 'default'
\* template when the code has no entry; the template is filled with the device.
C4_ButtonTextFollowsOverride ==
    request.kind = "ButtonRequest" =>
        /\ shown.template = ExpectedButtonTemplate(msg_code_override, request.code)
        /\ shown.device = device
        /\ response = Msg("ButtonAck", "")

C4_Witness ==
    /\ request.kind = "ButtonRequest"
    /\ request.code = 3
    /\ msg_code_override = "label"
    /\ shown.template = "Confirm label change on %s device to continue"

PromptRequests == {"PinMatrixRequest", "PassphraseRequest", "CharacterRequest"}

\* C5 as stated: for a PIN-matrix, passphrase or character request whose
\* prompt returned None or an empty value, the response is Cancel and no
\* acknowledgement is produced.
C5_CancelOnNoneOrEmpty ==
    (request.kind \in PromptRequests /\ answer \in {None, "", EmptyDict}) =>
        response = Msg("Cancel", "")

\* C5 amended: a PIN-matrix request whose get_pin returned None or '' and a
\* character request whose get_char returned None or an empty dict are
\* answered with Cancel and no acknowledgement; a passphrase request is
\* answered with Cancel only when get_passphrase returned None, and an empty
\* passphrase is acknowledged with PassphraseAck carrying the empty string.
C5_CancelOnDeclinedPrompt ==
    /\ (request.kind = "PinMatrixRequest" /\ answer \in {None, ""}) =>
          response = Msg("Cancel", "")
    /\ (request.kind = "CharacterRequest" /\ answer \in {None, EmptyDict}) =>
          response = Msg("Cancel", "")
    /\ (request.kind = "PassphraseRequest" /\ answer = None) =>
          response = Msg("Cancel", "")
    /\ (request.kind = "PassphraseRequest" /\ answer = "") =>
          response = Msg("PassphraseAck", "")

C5_Witness ==
    /\ request.kind = "PassphraseRequest"
    /\ answer = ""
    /\ response = Msg("PassphraseAck", "")

\* C6: every word request increases the step counter by exactly 1, the step
\* number in the prompt given to get_word is the counter after the increment,
\* and the response is a WordAck carrying the word get_word returned, never
\* a Cancel.
C6_WordRequestStepsAndAcks ==
    [][(\E c \in Callers : callback_WordRequest(c)) =>
            /\ step' = step + 1
            /\ shown' = Text("Step %d/24.  Enter seed word as explained on your %s:",
                             step', device)
            /\ answer' \in Words
            /\ response' = Msg("WordAck", answer')]_vars

C6_Witness ==
    /\ request.kind = "WordRequest"
    /\ step = 2
    /\ shown.step = 2
    /\ answer = ""
    /\ response = Msg("WordAck", "")

C8_FailureClassification ==
    request.kind = "Failure" =>
        \A c \in Callers :
            /\ pc[c] # "in_func"
            /\ pc[c] = "in_finally" =>
                  IF request.fcode \in {"Failure_PinCancelled", "Failure_ActionCancelled"}
                  THEN funcOutcome[c] = "SilentException" /\ errorText = ""
                  ELSE funcOutcome[c] = "RuntimeError" /\ errorText = request.message

C8_Witness ==
    /\ request.kind = "Failure"
    /\ request.fcode = "Failure_PinInvalid"
    /\ request.message = "Invalid PIN"
    /\ errorText = "Invalid PIN"
    /\ \E c \in Callers : pc[c] = "in_finally" /\ funcOutcome[c] = "RuntimeError"

----------------------------------------------------------------------------
(* Properties of teardown and of expand_path *)

\* C9: close() never raises, also when the session-clear step raises and
\* when an earlier call on the session failed.
C9_CloseNeverRaises == closed => closeResult = "ok"

\* the value the claim expects for a component: its numeral, with bit 31 set
\* when it is written with a trailing ' or a leading -
NumeralValue(digits) ==
    CASE digits = <<"0">> -> 0
      [] digits = <<"1">> -> 1
      [] digits = <<"2">> -> 2
      [] digits = <<"1", "2">> -> 12
ExpectedIndex(comp) ==
    IF comp.primed \/ comp.neg THEN Int32(1, NumeralValue(comp.digits))
    ELSE Int32(0, NumeralValue(comp.digits))

----------------------------------------------------------------------------
(* Properties of the composite operations *)

\* C11: a call of toggle_passphrase makes exactly one apply_settings call, whose
\* use_passphrase argument is the negation of features.passphrase_protection as
\* it stands when the call is made; msg_code_override is 'passphrase' for the
\* whole of that call, so every button request handled during it is shown with
\* the passphrase template.
C11_TogglePassphraseCall ==
    \A c \in Callers :
        (top[c] = "toggle_passphrase" /\ pc[c] # "idle") =>
            /\ wrappedCalls[c] = 1
            /\ method[c] = "apply_settings"
            /\ msg_code_override = "passphrase"
            /\ use_passphrase[c] \in {"True", "False"}
            /\ pc[c] = "in_func" =>
                  /\ use_passphrase[c] = "True" <=> ~features.passphrase_protection
                  /\ (request.kind = "ButtonRequest" /\ requester = c) =>
                        shown = Text("Confirm on %s device to continue", 0, device)

C11_Witness ==
    \E c \in Callers :
        /\ top[c] = "toggle_passphrase"
        /\ pc[c] = "in_func"
        /\ features.passphrase_protection
        /\ use_passphrase[c] = "False"
        /\ buttonCount[c] = 2
        /\ request.kind = "ButtonRequest"
        /\ request.code = 8
        /\ shown.template = "Confirm on %s device to continue"

----------------------------------------------------------------------------
(* Properties of the exchange with the device *)

\* the requests by which the device asks for an interaction, and their acks
InteractionRequests ==
    {"ButtonRequest", "PinMatrixRequest", "PassphraseRequest", "WordRequest",
     "CharacterRequest"}
AckOf(kind) ==
    CASE kind = "ButtonRequest" -> "ButtonAck"
      [] kind = "PinMatrixRequest" -> "PinMatrixAck"
      [] kind = "PassphraseRequest" -> "PassphraseAck"
      [] kind = "WordRequest" -> "WordAck"
      [] kind = "CharacterRequest" -> "CharacterAck"
      [] OTHER -> "none"

\* C12: whenever the dispatcher has handled a button, PIN-matrix, passphrase,
\* word or character request, it has returned one message for the device, and
\* that message is the acknowledgement of that kind of request or Cancel: no
\* handled request is left without its response.
C12_EveryRequestAnswered ==
    request.kind \in InteractionRequests =>
        /\ response # NoResponse
        /\ response.kind \in {AckOf(request.kind), "Cancel"}
        /\ \E c \in Callers : requester = c /\ pc[c] = "in_func"

C12_Witness ==
    \E c \in Callers :
        /\ requester = c
        /\ reqCount[c] = 2
        /\ request.kind = "CharacterRequest"
        /\ answer = EmptyDict
        /\ response = Msg("Cancel", "")

\* C13: the message the dispatcher returns for a button request is ButtonAck,
\* never Cancel, also after the user has invoked cancel; cancelling reaches the
\* device only through the cancel callback given to show_message, which writes
\* one Cancel message to the transport each time it is invoked, wherever that
\* falls within the call in flight.
C13_CancelOnlyOutOfBand ==
    /\ request.kind = "ButtonRequest" => response = Msg("ButtonAck", "")
    /\ Len(written) = cancelCalls
    /\ \A k \in 1..Len(written) : written[k] = Msg("Cancel", "")

C13_Witness ==
    \E c \in Callers :
        /\ pc[c] = "in_func"
        /\ buttonCount[c] = 2
        /\ cancelCalls = 1
        /\ written = <<Msg("Cancel", "")>>
        /\ request.kind = "ButtonRequest"
        /\ response = Msg("ButtonAck", "")

\* C14 as stated: within a call of an override-setting method, only the first
\* button request is shown with the override's template; a later button
\* request of the same call is shown by its own request code.
C14_OverrideForFirstButtonOnly ==
    \A c \in Callers :
        (pc[c] = "in_func" /\ top[c] \in OverrideMethods
            /\ request.kind = "ButtonRequest" /\ requester = c) =>
            shown.template =
                IF buttonCount[c] = 1
                THEN ExpectedButtonTemplate(msg_code_override, request.code)
                ELSE ExpectedButtonTemplate(None, request.code)

\* C14 amended: msg_code_override selects the prompt text of every button
\* request handled while the method that set it is in flight: the first and
\* every later button request of that call are shown with the override's
\* template, whatever their request codes.
C14_OverrideForEveryButton ==
    \A c \in Callers :
        (pc[c] = "in_func" /\ top[c] \in OverrideMethods
            /\ request.kind = "ButtonRequest" /\ requester = c) =>
            /\ msg_code_override \in TagsOf(top[c])
            /\ shown.template = messages[StrKey(msg_code_override)]
            /\ shown.template =
                  ExpectedButtonTemplate(msg_code_override, request.code)

C14_Witness ==
    \E c \in Callers :
        /\ pc[c] = "in_func"
        /\ top[c] = "set_pin"
        /\ requester = c
        /\ buttonCount[c] = 2
        /\ request.kind = "ButtonRequest"
        /\ request.code = 3
        /\ shown.template = "Confirm removal of PIN on %s device to continue"

\* how func ends when the dispatcher was given a Failure report
FailureOutcomes == {"SilentException", "RuntimeError"}

\* C15: a Failure report, whatever its code, ends the call in flight: the
\* dispatcher returns no message for the device, func ends at once by raising
\* SilentException or RuntimeError, no handler prompt (show_message, get_pin,
\* get_passphrase, get_word, get_char) is invoked for that call afterwards, and
\* the call does not end with a normal result.
C15_FailureUnwinds ==
    /\ [](request.kind = "Failure" =>
            /\ response = NoResponse
            /\ shown = NoText
            /\ answer = None
            /\ \E c \in Callers :
                  /\ requester = c
                  /\ pc[c] = "in_finally"
                  /\ funcOutcome[c] \in FailureOutcomes)
    /\ [](\A c \in Callers :
            funcOutcome[c] \in FailureOutcomes =>
                /\ pc[c] \in {"in_finally", "after_wrapped"}
                /\ pc[c] = "after_wrapped" => outcome[c] \in Exceptions \cup {"HandlerError"})
    /\ [][\A c \in Callers :
            funcOutcome[c] \in FailureOutcomes =>
                /\ shown' = NoText
                /\ answer' = None
                /\ response' = NoResponse
                /\ requester' \in {requester, "none"}
                /\ request' \in {request, NoRequest}]_vars

C15_Witness ==
    \E c \in Callers :
        /\ pc[c] = "in_finally"
        /\ reqCount[c] = 2
        /\ request.kind = "Failure"
        /\ request.fcode = "Failure_UnexpectedMessage"
        /\ funcOutcome[c] = "RuntimeError"
        /\ response = NoResponse

----------------------------------------------------------------------------
(* Properties of the teardown *)

\* C16: every close() first attempts the protocol session-clear and then
\* releases the transport: transport.close() is called exactly once per
\* close(), after the session-clear, also when the session-clear raised; an
\* exception of the session-clear does not leave clear_session().
C16_ClearThenCloseOnce ==
    /\ ~closed => closeLog = <<>> /\ transportCloses = 0
    /\ closed =>
          /\ transportCloses = 1
          /\ Len(closeLog) = 2
          /\ closeLog[1] \in {"super.clear_session", "super.clear_session raised"}
          /\ closeLog[2] = "transport.close"

C16_Witness ==
    /\ closed
    /\ closeLog = <<"super.clear_session raised", "transport.close">>
    /\ transportCloses = 1

----------------------------------------------------------------------------
(* Properties of a session whose callers do not serialize *)

\* C17: when two override-setting methods are interleaved on one session, the
\* override is one value shared by both: the text of a button request follows
\* whatever msg_code_override holds at that moment, which is the tag of some
\* call in flight or None, and not the tag of the call the request belongs to.
\* A button request of a call still in flight is thus shown with the other
\* call's template (C17_Witness) or by its request code, the other call having
\* reset the override (C17_ResetByOther).
C17_OverrideSharedByCalls ==
    /\ [][(\E c \in Callers : callback_ButtonRequest(c)) =>
            shown'.template =
                ExpectedButtonTemplate(msg_code_override, request'.code)]_vars
    /\ [](msg_code_override # None =>
            \E c \in Callers :
                pc[c] # "idle" /\ msg_code_override \in TagsOf(top[c]))

C17_Witness ==
    \E c \in Callers :
        /\ pc[c] = "in_func"
        /\ top[c] = "change_label"
        /\ requester = c
        /\ request.kind = "ButtonRequest"
        /\ shown.template = "Confirm on %s device to continue"

C17_ResetByOther ==
    \E c \in Callers :
        /\ pc[c] = "in_func"
        /\ top[c] = "change_label"
        /\ requester = c
        /\ request.kind = "ButtonRequest"
        /\ request.code = 8
        /\ msg_code_override = None
        /\ shown.template = "Confirm transaction fee on %s device to continue"

----------------------------------------------------------------------------
(* Properties of atleast_version *)

\* a version triple as one number: triples in lexicographic order are numbers
\* in numeric order
VersionBase == MaxVersion + 2
VersionNumber(v) == (v[1] * VersionBase + v[2]) * VersionBase + v[3]

\* the triple an argument list stands for, omitted arguments counting as 0
ArgumentTriple(args) == [k \in 1..3 |-> IF k <= Len(args) THEN args[k] ELSE 0]

\* C18: atleast_version(major, minor, patch) returns the three-way
\* lexicographic comparison of the firmware version triple with
\* (major, minor, patch): negative when the firmware is older, zero when it is
\* equal, positive when it is newer, an omitted minor or patch counting as 0;
\* the call changes no state of the session.
C18_AtleastVersion ==
    /\ [](version_result.called =>
            LET firmware == VersionNumber(firmware_version(features))
                wanted == VersionNumber(ArgumentTriple(version_args))
            IN
            /\ firmware < wanted <=> version_result.value < 0
            /\ firmware = wanted <=> version_result.value = 0
            /\ firmware > wanted <=> version_result.value > 0)
    /\ [][version_result' # version_result =>
            UNCHANGED <<callVars, msg_code_override, step, stepSet, features,
                        device, dialogVars, wordLog, abortedRecovery, lastResult,
                        closeVars, cancelVars>>]_vars

C18_Witness ==
    /\ version_result.called
    /\ firmware_version(features) = <<1, 0, 2>>
    /\ version_args = <<1>>
    /\ version_result.value = 1

----------------------------------------------------------------------------
(* Properties of the methods that are not wrapped themselves *)

\* C19 as stated: every call of toggle_passphrase, change_label,
\* change_homescreen, set_pin, first_address or address_from_derivation makes
\* exactly one call of a wrapped method and so signals handler.finished()
\* exactly once, in the override-setting ones before the override is reset.
C19_OneWrappedCallPerComposite ==
    /\ lastResult.top \in CompositeMethods =>
          lastResult.wrapped = 1 /\ lastResult.finished = 1
    /\ \A c \in Callers :
          (top[c] \in OverrideMethods /\ finishedCalls[c] = 1) =>
              msg_code_override # None

\* C19 amended: every call of toggle_passphrase, change_label,
\* change_homescreen or set_pin makes exactly one call of a wrapped method and
\* signals handler.finished() exactly once, before msg_code_override is reset
\* to None; a call of first_address or address_from_derivation does so when
\* expand_path accepts the derivation, and makes no call of a wrapped method
\* and signals finished() zero times when expand_path raises ValueError.
C19_OneWrappedCallUnlessPathError ==
    /\ lastResult.top \in OverrideMethods =>
          /\ lastResult.wrapped = 1
          /\ lastResult.finished = 1
          /\ ~lastResult.pathError
    /\ lastResult.top \in CompositeMethods \ OverrideMethods =>
          IF lastResult.pathError
          THEN /\ lastResult.wrapped = 0
               /\ lastResult.finished = 0
               /\ lastResult.result = "raised"
          ELSE /\ lastResult.wrapped = 1
               /\ lastResult.finished = 1
    /\ \A c \in Callers :
          (top[c] \in OverrideMethods /\ finishedCalls[c] = 1) =>
              /\ pc[c] = "after_wrapped"
              /\ msg_code_override \in TagsOf(top[c])

C19_Witness ==
    /\ lastResult.top = "first_address"
    /\ lastResult.pathError
    /\ lastResult.wrapped = 0
    /\ lastResult.finished = 0
    /\ \A c \in Callers : pc[c] = "idle"

----------------------------------------------------------------------------
(* What the callback dispatcher leaves alone *)

\* C20: no callback of the dispatcher writes msg_code_override, and only the
\* word-request callback changes the step counter: handling a Failure, button,
\* PIN-matrix, passphrase or character request leaves msg_code_override and
\* step as they were, and handling a word request leaves msg_code_override as
\* it was.
C20_DispatcherFrame ==
    [][/\ (\E c \in Callers :
              \/ callback_Failure(c)
              \/ callback_ButtonRequest(c)
              \/ callback_PinMatrixRequest(c)
              \/ callback_PassphraseRequest(c)
              \/ callback_CharacterRequest(c)) =>
                  UNCHANGED <<msg_code_override, step, stepSet>>
       /\ (\E c \in Callers : callback_WordRequest(c)) =>
              UNCHANGED msg_code_override]_vars

C20_Witness ==
    \E c \in Callers :
        /\ requester = c
        /\ top[c] = "change_homescreen"
        /\ request.kind = "ButtonRequest"
        /\ msg_code_override = "homescreen"
        /\ stepSet
        /\ step = 2

====
